---- MODULE Spec2Model ----
(***************************************************************************)
(* twobitreader: a reader for .2bit containers (2 bits per base, N-runs    *)
(* and mask-runs as overlays).  The container is a sequence of bytes with  *)
(* one shared read cursor; TwoBitFile.__init__ parses header, index and    *)
(* sequence records, TwoBitSequence.get_slice decodes a range.             *)
(*                                                                         *)
(* Conventions of the translation (Python 2, CPython):                     *)
(*  - an array('L'/'I') is kept as its memory image: a sequence of 4-byte  *)
(*    groups; byteswap() reverses each group, tostring() concatenates      *)
(*    them, and an element's value is the little-endian reading of its     *)
(*    group (the host is taken little-endian; "native" files are then      *)
(*    little-endian files, "swapped" ones big-endian);                     *)
(*  - an array('c') / str is a sequence of one-character strings;          *)
(*  - `/` on ints is floor division, `%` takes the sign of the divisor     *)
(*    (\div and % of TLA+ agree with both);                                *)
(*  - None orders below every int (CPython 2 mixed-type ordering);         *)
(*  - an optional value is a record [none |-> BOOLEAN, v |-> value].       *)
(***************************************************************************)
EXTENDS Integers, Sequences, FiniteSets, TLC

\* ------------------------------------------------------------------------
\* Bounds of the model
\* ------------------------------------------------------------------------
\* largest dna_size of the last sequence: 33 bases = three 16-base units,
\* the last of them short
MaxDna == 33
\* slice coordinates range over -(dna_size + Slack) .. dna_size + Slack
Slack == 2
\* largest dna_size of the last sequence in the header runs
MaxDnaHeader == 1
\* dna_size of the last sequence and largest coordinate in the serial runs
DnaSerial == 1
MaxCoordSerial == 1

\* ------------------------------------------------------------------------
\* Program constants
\* ------------------------------------------------------------------------
SIGNATURE == 440477507   \* 0x1A412743

\* ------------------------------------------------------------------------
\* Python built-ins the code relies on
\* ------------------------------------------------------------------------
Min(a, b) == IF a <= b THEN a ELSE b
Max(a, b) == IF a >= b THEN a ELSE b

Some(x) == [none |-> FALSE, v |-> x]
None == [none |-> TRUE, v |-> 0]

\* an index of a slice s[i:j], brought into 0..length as Python does
ClampIndex(length, i) ==
    IF i < 0 THEN Max(i + length, 0) ELSE Min(i, length)

\* s[i:j]
PyGetSlice(s, i, j) ==
    LET lo == ClampIndex(Len(s), i)
        hi == ClampIndex(Len(s), j)
    IN  IF hi <= lo THEN << >> ELSE SubSeq(s, lo + 1, hi)

\* s[i:j] = new  (the slice is replaced, so the length can change)
PySetSlice(s, i, j, new) ==
    LET lo == ClampIndex(Len(s), i)
        hi == Max(ClampIndex(Len(s), j), lo)
    IN  SubSeq(s, 1, lo) \o new \o SubSeq(s, hi + 1, Len(s))

\* 'N' * n
Ns(n) == [k \in 1..Max(n, 0) |-> "N"]

\* str.lower on one character of the alphabet
LowerChar(c) ==
    CASE c = "A" -> "a" [] c = "C" -> "c" [] c = "G" -> "g"
      [] c = "T" -> "t" [] c = "N" -> "n" [] OTHER -> c
lower(s) == [k \in 1..Len(s) |-> LowerChar(s[k])]

\* bisect.bisect_right(a, x, lo): the insertion point after any entries equal
\* to x, searched by bisection in a[lo:]
RECURSIVE Bisect(_, _, _, _)
Bisect(a, x, lo, hi) ==
    IF lo < hi
    THEN LET mid == (lo + hi) \div 2
         IN  IF x < a[mid + 1] THEN Bisect(a, x, lo, mid)
                               ELSE Bisect(a, x, mid + 1, hi)
    ELSE lo
bisect_right(a, x, lo) == Bisect(a, x, lo, Len(a))

\* ------------------------------------------------------------------------
\* The base-decode table
\* ------------------------------------------------------------------------
bits_to_base(x) ==
    CASE x = 0 -> "T" [] x = 1 -> "C" [] x = 2 -> "A" [] x = 3 -> "G"

byte_to_bases(x) ==
    LET c  == (x \div 16) % 16
        f  == x % 16
        cc == (c \div 4) % 4
        cf == c % 4
        fc == (f \div 4) % 4
        ff == f % 4
    IN  << bits_to_base(cc), bits_to_base(cf), bits_to_base(fc), bits_to_base(ff) >>

BYTE_TABLE(x) == byte_to_bases(x)

\* ------------------------------------------------------------------------
\* arrays of 4-byte items
\* ------------------------------------------------------------------------
\* array.byteswap(): every item's bytes reversed
byteswap(longs) ==
    [k \in 1..Len(longs) |-> << longs[k][4], longs[k][3], longs[k][2], longs[k][1] >>]

\* array.tostring(): the memory image
RECURSIVE tostring(_)
tostring(longs) ==
    IF longs = << >> THEN << >> ELSE Head(longs) \o tostring(Tail(longs))

\* the value of one item
LongValue(g) == g[1] + 256 * g[2] + 65536 * g[3] + 16777216 * g[4]

\* ------------------------------------------------------------------------
\* longs_to_char_array
\* ------------------------------------------------------------------------
\* the four table entries of one block, joined
BlockBases(bytes, first) ==
    BYTE_TABLE(bytes[first]) \o BYTE_TABLE(bytes[first + 1])
      \o BYTE_TABLE(bytes[first + 2]) \o BYTE_TABLE(bytes[first + 3])

\* for byte in bytes[4:-4]: dna[i:i + 4] = BYTE_TABLE[byte]; i += 4
RECURSIVE MiddleBlocks(_, _, _)
MiddleBlocks(dna, i, mid) ==
    IF mid = << >> THEN [dna |-> dna, i |-> i]
    ELSE MiddleBlocks(PySetSlice(dna, i, i + 4, BYTE_TABLE(Head(mid))), i + 4, Tail(mid))

\* for byte in bytes (of more_bytes): a whole byte while it fits, else the
\* part that fits and stop
RECURSIVE MoreBytes(_, _, _, _)
MoreBytes(dna, i, more, array_size) ==
    IF more = << >> THEN dna
    ELSE IF i + 4 > array_size
         THEN PySetSlice(dna, i, array_size,
                         PyGetSlice(BYTE_TABLE(Head(more)), 0, array_size - i))
         ELSE MoreBytes(PySetSlice(dna, i, i + 4, BYTE_TABLE(Head(more))),
                        i + 4, Tail(more), array_size)

\* the two IndexErrors of the module: the one get_slice raises itself (the
\* range error), and the one of a subscript past the end of an array
RangeError == "IndexError: index out of range"
ArrayIndexError == "IndexError: array index out of range"

\* returns [status, dna]; bytes[x] for x in range(4) raises IndexError when
\* fewer than four bytes (no long at all) were handed in
longs_to_char_array(longs, first_base_offset, last_base_offset, array_size, more_bytes) ==
    LET longs_len == Len(longs)
        dna0 == Ns(longs_len)
        bytes == tostring(longs)
    IN  IF Len(bytes) < 4 THEN [status |-> ArrayIndexError, dna |-> << >>]
        ELSE
        LET first_block == BlockBases(bytes, 1)
            i0 == 16 - first_base_offset
            i1 == IF array_size < i0 THEN array_size ELSE i0
            dna1 == PySetSlice(dna0, 0, i1,
                               PyGetSlice(first_block, first_base_offset,
                                          first_base_offset + i1))
            mid == MiddleBlocks(dna1, i1, PyGetSlice(bytes, 4, -4))
            last_block == BlockBases(bytes, Len(bytes) - 3)
            dna2 == IF longs_len > 1
                    THEN PySetSlice(mid.dna, mid.i, mid.i + last_base_offset,
                                    PyGetSlice(last_block, 0, last_base_offset))
                    ELSE dna1
            i2 == IF longs_len > 1 THEN mid.i + 16 ELSE i1
            dna3 == IF more_bytes.none THEN dna2
                    ELSE MoreBytes(dna2, i2, more_bytes.v, array_size)
        IN  [status |-> "ok", dna |-> dna3]

\* ------------------------------------------------------------------------
\* The container on disk, written as print_specification() describes it
\* ------------------------------------------------------------------------
\* base_to_bin, as the number its two bits spell
base_to_bin(x) ==
    CASE x = "T" -> 0 [] x = "C" -> 1 [] x = "A" -> 2 [] x = "G" -> 3

\* one 32-bit field in the byte order of the file's writer
WriteLong(v, swapped) ==
    LET le == << v % 256, (v \div 256) % 256, (v \div 65536) % 256,
                 (v \div 16777216) % 256 >>
    IN  IF swapped THEN << le[4], le[3], le[2], le[1] >> ELSE le

RECURSIVE WriteLongs(_, _)
WriteLongs(vs, swapped) ==
    IF vs = << >> THEN << >>
    ELSE WriteLong(Head(vs), swapped) \o WriteLongs(Tail(vs), swapped)

\* packedDna: four bases a byte, first base in the most significant bits,
\* the last byte filled up with 0 bits
PackByte(bases, k) ==
    LET code(p) == IF p <= Len(bases) THEN base_to_bin(bases[p]) ELSE 0
    IN  64 * code(4 * k + 1) + 16 * code(4 * k + 2) + 4 * code(4 * k + 3) + code(4 * k + 4)

\* padded: filled up to a multiple of 32 bits; otherwise ceil(dnaSize / 4) bytes
PackedDna(bases, padded) ==
    LET n_bytes == (Len(bases) + 3) \div 4
        n_file  == IF padded THEN 4 * ((n_bytes + 3) \div 4) ELSE n_bytes
    IN  [k \in 1..n_file |-> IF k <= n_bytes THEN PackByte(bases, k - 1) ELSE 0]

RunStarts(runs) == [k \in 1..Len(runs) |-> runs[k][1]]
RunSizes(runs) == [k \in 1..Len(runs) |-> runs[k][2]]

\* one sequence record
SequenceRecord(s, swapped, padded) ==
    WriteLongs(<< Len(s.bases), Len(s.n_runs) >>, swapped)
      \o WriteLongs(RunStarts(s.n_runs), swapped)
      \o WriteLongs(RunSizes(s.n_runs), swapped)
      \o WriteLong(Len(s.mask_runs), swapped)
      \o WriteLongs(RunStarts(s.mask_runs), swapped)
      \o WriteLongs(RunSizes(s.mask_runs), swapped)
      \o WriteLong(0, swapped)
      \o PackedDna(s.bases, padded)

RECURSIVE IndexSize(_)
IndexSize(seqs) ==
    IF seqs = << >> THEN 0 ELSE 1 + Len(Head(seqs).name) + 4 + IndexSize(Tail(seqs))

\* the offset of record k: header, index, then the records before it
RECURSIVE RecordOffset(_, _)
RecordOffset(c, k) ==
    IF k = 1 THEN 16 + IndexSize(c.seqs)
    ELSE RecordOffset(c, k - 1)
           + Len(SequenceRecord(c.seqs[k - 1], c.swapped, c.padded))

RECURSIVE IndexBytes(_, _)
IndexBytes(c, k) ==
    IF k > Len(c.seqs) THEN << >>
    ELSE << Len(c.seqs[k].name) >> \o c.seqs[k].name
           \o WriteLong(RecordOffset(c, k), c.swapped) \o IndexBytes(c, k + 1)

RECURSIVE RecordBytes(_, _)
RecordBytes(c, k) ==
    IF k > Len(c.seqs) THEN << >>
    ELSE SequenceRecord(c.seqs[k], c.swapped, c.padded) \o RecordBytes(c, k + 1)

\* the whole file of container c
FileBytes(c) ==
    WriteLongs(<< c.signature, c.version, Len(c.seqs), c.reserved >>, c.swapped)
      \o IndexBytes(c, 1) \o RecordBytes(c, 1)

\* ------------------------------------------------------------------------
\* The file handle: bytes plus one cursor
\* ------------------------------------------------------------------------
\* file_handle.seek(target)
FileSeek(pos, target) == target

\* array.fromfile(file_handle, n) for 4-byte items: [status, items, pos]
fromfile(bytes, pos, n) ==
    IF n <= 0 THEN [status |-> "ok", items |-> << >>, pos |-> pos]
    ELSE IF pos + 4 * n > Len(bytes)
         THEN [status |-> "EOFError", items |-> << >>, pos |-> Len(bytes)]
         ELSE [status |-> "ok",
               items |-> [k \in 1..n |-> SubSeq(bytes, pos + 4 * k - 3, pos + 4 * k)],
               pos |-> pos + 4 * n]

\* file_handle.read(): everything up to the end of the file
FileReadAll(bytes, pos) ==
    IF pos >= Len(bytes) THEN << >> ELSE SubSeq(bytes, pos + 1, Len(bytes))

\* fromfile, then byteswap when the container is swapped, as element values
ReadLongs(bytes, pos, n, byteswapped) ==
    LET r == fromfile(bytes, pos, n)
        a == IF byteswapped THEN byteswap(r.items) ELSE r.items
    IN  [status |-> r.status, pos |-> r.pos,
         v |-> [k \in 1..Len(a) |-> LongValue(a[k])]]

\* ------------------------------------------------------------------------
\* TwoBitFile._load_header
\* ------------------------------------------------------------------------
\* a header reader that leaves the reserved field unchecked; the header
\* validation property tells it apart from load_header
load_header_reserved_unchecked(bytes) ==
    LET r == fromfile(bytes, 0, 4)
    IN  IF r.status # "ok"
        THEN [status |-> r.status, byteswapped |-> FALSE, sequence_count |-> 0,
              pos |-> r.pos]
        ELSE
        LET signature == LongValue(r.items[1])
            byteswapped == signature # SIGNATURE
            header == IF byteswapped THEN byteswap(r.items) ELSE r.items
            signature2 == LongValue(header[1])
            version == LongValue(header[2])
            sequence_count == LongValue(header[3])
            bad == \/ byteswapped /\ signature2 # SIGNATURE
                   \/ version # 0
        IN  [status |-> IF bad THEN "TwoBitFileError" ELSE "ok",
             byteswapped |-> byteswapped,
             sequence_count |-> IF bad THEN 0 ELSE sequence_count,
             pos |-> r.pos]

\* [status, byteswapped, sequence_count, pos]; the four fields are read in
\* host order, and swapped together when the signature does not match
load_header(bytes) ==
    LET r == fromfile(bytes, 0, 4)
    IN  IF r.status # "ok"
        THEN [status |-> r.status, byteswapped |-> FALSE, sequence_count |-> 0,
              pos |-> r.pos]
        ELSE
        LET signature == LongValue(r.items[1])
            byteswapped == signature # SIGNATURE
            header == IF byteswapped THEN byteswap(r.items) ELSE r.items
            signature2 == LongValue(header[1])
            version == LongValue(header[2])
            sequence_count == LongValue(header[3])
            reserved == LongValue(header[4])
            bad == \/ byteswapped /\ signature2 # SIGNATURE
                   \/ version # 0
                   \/ reserved # 0
        IN  [status |-> IF bad THEN "TwoBitFileError" ELSE "ok",
             byteswapped |-> byteswapped,
             sequence_count |-> IF bad THEN 0 ELSE sequence_count,
             pos |-> r.pos]

\* ------------------------------------------------------------------------
\* TwoBitFile._load_index
\* ------------------------------------------------------------------------
\* the (name, offset) pairs in file order, read from the cursor
RECURSIVE IndexEntries(_, _, _, _)
IndexEntries(bytes, pos, remaining, byteswapped) ==
    IF remaining <= 0 THEN << >>
    ELSE LET name_size == bytes[pos + 1]
             name == SubSeq(bytes, pos + 2, pos + 1 + name_size)
             offset == ReadLongs(bytes, pos + 1 + name_size, 1, byteswapped)
         IN  << [name |-> name, offset |-> offset.v[1]] >>
               \o IndexEntries(bytes, offset.pos, remaining - 1, byteswapped)

load_index(bytes, sequence_count, byteswapped) ==
    IndexEntries(bytes, FileSeek(0, 16), sequence_count, byteswapped)

\* dict(sequence_offsets): a later entry of the same name wins
offset_dict(sequence_offsets) ==
    LET names == {sequence_offsets[k].name : k \in 1..Len(sequence_offsets)}
        last(n) == CHOOSE k \in 1..Len(sequence_offsets) :
                      /\ sequence_offsets[k].name = n
                      /\ \A j \in (k + 1)..Len(sequence_offsets) :
                            sequence_offsets[j].name # n
    IN  [n \in names |-> sequence_offsets[last(n)].offset]

\* ------------------------------------------------------------------------
\* TwoBitSequence.__init__
\* ------------------------------------------------------------------------
\* the descriptor of the record at `offset`; `pos` is where the cursor is left
TwoBitSequence(bytes, offset, file_size, byteswapped) ==
    LET header == ReadLongs(bytes, FileSeek(0, offset), 2, byteswapped)
        dna_size == header.v[1]
        n_block_count == header.v[2]
        n_block_starts == ReadLongs(bytes, header.pos, n_block_count, byteswapped)
        n_block_sizes == ReadLongs(bytes, n_block_starts.pos, n_block_count, byteswapped)
        mask_rawc == ReadLongs(bytes, n_block_sizes.pos, 1, byteswapped)
        mask_block_count == mask_rawc.v[1]
        mask_block_starts == ReadLongs(bytes, mask_rawc.pos, mask_block_count, byteswapped)
        mask_block_sizes == ReadLongs(bytes, mask_block_starts.pos, mask_block_count,
                                      byteswapped)
    IN  [file_size |-> file_size,
         original_offset |-> offset,
         byteswapped |-> byteswapped,
         dna_size |-> dna_size,
         n_bytes |-> (dna_size + 3) \div 4,
         packed_dna_size |-> (dna_size + 15) \div 16,
         n_block_starts |-> n_block_starts.v,
         n_block_sizes |-> n_block_sizes.v,
         mask_block_starts |-> mask_block_starts.v,
         mask_block_sizes |-> mask_block_sizes.v,
         offset |-> mask_block_sizes.pos + 4]

\* ------------------------------------------------------------------------
\* TwoBitSequence.get_slice
\* ------------------------------------------------------------------------
\* max_ < bound, where max_ may be None: None is below every int
OptLess(max_, bound) == max_.none \/ max_.v < bound

\* the coordinate handling before any byte is read:
\* [kind |-> "raise" | "empty" | "read", min_, max_]
Normalize(dna_size, min_arg, max_arg) ==
    LET max_neg == ~max_arg.none /\ max_arg.v < 0
        max1 == IF max_neg THEN Some(dna_size + 1 + max_arg.v) ELSE max_arg
        min1 == IF min_arg < 0 THEN dna_size + 1 + min_arg ELSE min_arg
    IN  IF max_neg /\ max_arg.v < -dna_size
        THEN [kind |-> "raise", min_ |-> min_arg, max_ |-> 0]
        ELSE IF min_arg < 0 /\ OptLess(max1, -dna_size)
        THEN [kind |-> "raise", min_ |-> min_arg, max_ |-> 0]
        ELSE IF ~max1.none /\ min1 > max1.v
        THEN [kind |-> "empty", min_ |-> min1, max_ |-> max1.v]
        ELSE IF ~max1.none /\ (max1.v = 0 \/ max1.v = min1)
        THEN [kind |-> "empty", min_ |-> min1, max_ |-> max1.v]
        ELSE [kind |-> "read", min_ |-> min1,
              max_ |-> IF max1.none \/ max1.v > dna_size THEN dna_size ELSE max1.v]

\* for start, size in izip(n_block_starts, n_block_sizes): ... 'N' * (end - start)
RECURSIVE OverlayN(_, _, _, _, _, _)
OverlayN(arr, starts, sizes, k, min_, max_) ==
    IF k > Len(starts) \/ k > Len(sizes) THEN arr
    ELSE LET end == starts[k] + sizes[k]
         IN  IF end <= min_ THEN OverlayN(arr, starts, sizes, k + 1, min_, max_)
             ELSE IF starts[k] > max_ THEN arr
             ELSE LET s == Max(starts[k], min_) - min_
                      e == Min(end, max_) - min_
                  IN  OverlayN(PySetSlice(arr, s, e, Ns(e - s)),
                               starts, sizes, k + 1, min_, max_)

\* the same walk over the mask runs, lowercasing what is there
RECURSIVE OverlayMask(_, _, _, _, _, _)
OverlayMask(arr, starts, sizes, k, min_, max_) ==
    IF k > Len(starts) \/ k > Len(sizes) THEN arr
    ELSE LET end == starts[k] + sizes[k]
         IN  IF end <= min_ THEN OverlayMask(arr, starts, sizes, k + 1, min_, max_)
             ELSE IF starts[k] > max_ THEN arr
             ELSE LET s == Max(starts[k], min_) - min_
                      e == Min(end, max_) - min_
                  IN  OverlayMask(PySetSlice(arr, s, e, lower(PyGetSlice(arr, s, e))),
                                  starts, sizes, k + 1, min_, max_)

\* the mask runs the binary search keeps: mask_block_*[first:last]
MaskWindow(self, min_, max_) ==
    LET first_masked_region ==
            Max(0, bisect_right(self.mask_block_starts, min_, 0) - 1)
        last_masked_region ==
            Min(Len(self.mask_block_starts),
                1 + bisect_right(self.mask_block_starts, max_, first_masked_region))
    IN  [starts |-> PyGetSlice(self.mask_block_starts, first_masked_region,
                               last_masked_region),
         sizes |-> PyGetSlice(self.mask_block_sizes, first_masked_region,
                              last_masked_region)]

\* the (blocks_to_read, short) decision of the read
BlocksToRead(self, min_, max_) ==
    LET start_block == min_ \div 16
        end_block == (max_ - 1 + 16) \div 16
        blocks_to_read == end_block - start_block
    IN  IF blocks_to_read + start_block > self.packed_dna_size
        THEN self.packed_dna_size - start_block
        ELSE blocks_to_read

\* the read would run past the end of the file
PastEnd(self, min_, max_) ==
    BlocksToRead(self, min_, max_) * 4 + self.offset + (min_ \div 16) * 4
        > self.file_size

\* a read that starts wherever the cursor was left instead of seeking; the
\* history independence property tells it apart from SeekLocalOffset
SeekSkipped(self, pos, min_) == pos

\* file_handle.seek(local_offset): the cursor goes to the first block needed
SeekLocalOffset(self, pos, min_) ==
    FileSeek(pos, self.offset + (min_ \div 16) * 4)

\* seek, read, decode and overlay for normalized min_, max_:
\* [status, value, pos]
ReadRegion(self, bytes, pos, min_, max_) ==
    LET region_size == max_ - min_
        start_block == min_ \div 16
        local_offset == self.offset + start_block * 4
        pos1 == SeekLocalOffset(self, pos, min_)
        first_base_offset == min_ % 16
        last0 == max_ % 16
        last_base_offset == IF last0 = 0 THEN 16 ELSE last0
        blocks_to_read == BlocksToRead(self, min_, max_)
        short == PastEnd(self, min_, max_)
        rd == fromfile(bytes, pos1, IF short THEN blocks_to_read - 1 ELSE blocks_to_read)
        morebytes == IF short THEN Some(FileReadAll(bytes, rd.pos)) ELSE None
        pos2 == IF short THEN Max(rd.pos, Len(bytes)) ELSE rd.pos
        fourbyte_dna == IF self.byteswapped THEN byteswap(rd.items) ELSE rd.items
        decoded == longs_to_char_array(fourbyte_dna, first_base_offset,
                                       last_base_offset, region_size, morebytes)
        with_n == OverlayN(decoded.dna, self.n_block_starts, self.n_block_sizes,
                           1, min_, max_)
        window == MaskWindow(self, min_, max_)
        string_as_array == OverlayMask(with_n, window.starts, window.sizes, 1, min_, max_)
    IN  IF local_offset < 0
        THEN [status |-> "IOError", value |-> << >>, pos |-> pos]
        ELSE IF rd.status # "ok"
        THEN [status |-> rd.status, value |-> << >>, pos |-> rd.pos]
        ELSE IF decoded.status # "ok"
        THEN [status |-> decoded.status, value |-> << >>, pos |-> pos2]
        ELSE IF Len(string_as_array) # max_ - min_
        THEN [status |-> "RuntimeError", value |-> << >>, pos |-> pos2]
        ELSE [status |-> "ok", value |-> string_as_array, pos |-> pos2]

\* get_slice(min_, max_) with the cursor at pos: [status, value, pos]
get_slice(self, bytes, pos, min_arg, max_arg) ==
    LET n == Normalize(self.dna_size, min_arg, max_arg)
    IN  CASE n.kind = "raise" -> [status |-> RangeError, value |-> << >>, pos |-> pos]
          [] n.kind = "empty" -> [status |-> "ok", value |-> << >>, pos |-> pos]
          [] OTHER -> ReadRegion(self, bytes, pos, n.min_, n.max_)

\* __str__
str(self, bytes, pos) == get_slice(self, bytes, pos, 0, None)

\* ------------------------------------------------------------------------
\* TwoBitFile.sequence_sizes
\* ------------------------------------------------------------------------
\* d[name]: seek to the record, read one long, swap it when needed
sequence_sizes(bytes, offsets, byteswapped) ==
    [n \in DOMAIN offsets |->
        ReadLongs(bytes, FileSeek(0, offsets[n]), 1, byteswapped).v[1]]

\* ------------------------------------------------------------------------
\* Containers the runs start from
\* ------------------------------------------------------------------------
GATTACA == << "G", "A", "T", "T", "A", "C", "A" >>

\* the known base string of length n
Bases(n) == [p \in 1..n |-> GATTACA[((p - 1) % 7) + 1]]

\* sorted, non-overlapping, in-bounds runs of at least one base
WellFormedRuns(runs, n) ==
    /\ \A k \in 1..Len(runs) :
          runs[k][1] >= 0 /\ runs[k][2] >= 1 /\ runs[k][1] + runs[k][2] <= n
    /\ \A k \in 1..(Len(runs) - 1) : runs[k][1] + runs[k][2] <= runs[k + 1][1]

\* run tables tried on a sequence of n bases: none; several short runs, an
\* N-run inside a mask-run among them; an N-run short of the end under a
\* mask-run up to the end
NoRuns == [n_runs |-> << >>, mask_runs |-> << >>]

RunLayouts(n) ==
    { r \in { NoRuns,
              [n_runs |-> << << 1, 2 >>, << 5, 1 >> >>,
               mask_runs |-> << << 0, 2 >>, << 4, 3 >>, << n - 1, 1 >> >>],
              [n_runs |-> << << n - 3, 2 >> >>,
               mask_runs |-> << << 2, n - 2 >> >>] } :
          WellFormedRuns(r.n_runs, n) /\ WellFormedRuns(r.mask_runs, n) }

\* the dna sizes tried: every size whose packed data is short of one unit or
\* short of filling its second byte, one whole unit, and one base into each
\* further unit
DnaSizes == { n \in 0..MaxDna : n <= 5 \/ n = 16 \/ n % 16 = 1 }

NameA == << 97 >>
NameB == << 98 >>

\* the first sequence of every container: GATTACA, position 5 unknown, the
\* first four bases masked
FirstSequence ==
    [name |-> NameA, bases |-> Bases(7),
     n_runs |-> << << 5, 1 >> >>, mask_runs |-> << << 0, 4 >> >>]

LastSequence(n, layout) ==
    [name |-> NameB, bases |-> Bases(n),
     n_runs |-> layout.n_runs, mask_runs |-> layout.mask_runs]

\* a well-formed container of two sequences
Container(swapped, padded, n, layout) ==
    [signature |-> SIGNATURE, version |-> 0, reserved |-> 0,
     swapped |-> swapped, padded |-> padded,
     seqs |-> << FirstSequence, LastSequence(n, layout) >>]

\* every container of the main runs: native ones with every run layout,
\* byte-swapped ones without runs
Containers ==
    UNION { { Container(FALSE, pd, n, ly) : pd \in BOOLEAN, ly \in RunLayouts(n) }
              \cup { Container(TRUE, pd, n, NoRuns) : pd \in BOOLEAN } :
            n \in DnaSizes }

\* containers of the serial runs: a last sequence shorter than the
\* coordinates tried, so that calls on it fail as well as succeed
SerialContainers ==
    { Container(FALSE, pd, DnaSerial, NoRuns) : pd \in BOOLEAN }

\* header fields as a writer may have left them
HeaderContainers ==
    { [signature |-> sg, version |-> vs, reserved |-> rs,
       swapped |-> sw, padded |-> FALSE,
       seqs |-> << FirstSequence,
                   LastSequence(n, NoRuns) >>] :
        sg \in {SIGNATURE, SIGNATURE + 1, 0}, vs \in {0, 1}, rs \in {0, 1},
        sw \in BOOLEAN, n \in 0..MaxDnaHeader }

\* ------------------------------------------------------------------------
\* State
\* ------------------------------------------------------------------------
VARIABLES
    container,       \* what the writer put in the file (never read by the code)
    file,            \* the bytes of the file
    phase,           \* "closed", "open" (constructor returned) or "failed"
    error,           \* the exception TwoBitFile.__init__ raised, "" if none
    byteswapped,     \* self._byteswapped
    sequence_count,  \* self._sequence_count
    offsets,         \* self._offset_dict: name -> record offset
    sequences,       \* the dict itself: name -> TwoBitSequence
    iter_last,       \* the key _offset_dict.iteritems() yields last
    pos,             \* the cursor of the shared file handle
    last,            \* the last call and what it gave
    ref              \* the first get_slice call of the run and what it gave

vars == << container, file, phase, error, byteswapped, sequence_count,
           offsets, sequences, iter_last, pos, last, ref >>

NoCall ==
    [op |-> "none", name |-> << >>, min_ |-> 0, max_ |-> None,
     status |-> "", value |-> << >>, sizes |-> << >>, before |-> 0]

InitWith(cs) ==
    /\ container \in cs
    /\ file = FileBytes(container)
    /\ phase = "closed"
    /\ error = ""
    /\ byteswapped = FALSE
    /\ sequence_count = 0
    /\ offsets = << >>
    /\ sequences = << >>
    /\ iter_last = << >>
    /\ pos = 0
    /\ last = NoCall
    /\ ref = NoCall

Init == InitWith(Containers)
InitSerial == InitWith(SerialContainers)
InitHeader == InitWith(HeaderContainers)

\* ------------------------------------------------------------------------
\* TwoBitFile.__init__
\* ------------------------------------------------------------------------
\* the descriptors are built in the iteration order of _offset_dict, which
\* the code does not control: the cursor ends behind the record header of
\* whichever name comes last
Open ==
    /\ phase = "closed"
    /\ LET h == load_header(file)
       IN  IF h.status # "ok"
           THEN /\ phase' = "failed"
                /\ error' = h.status
                /\ pos' = h.pos
                /\ last' = [NoCall EXCEPT !.op = "open", !.status = h.status]
                /\ UNCHANGED << byteswapped, sequence_count, offsets, sequences,
                                iter_last >>
           ELSE LET idx == load_index(file, h.sequence_count, h.byteswapped)
                    od == offset_dict(idx)
                    made == [n \in DOMAIN od |->
                                TwoBitSequence(file, od[n], Len(file), h.byteswapped)]
                IN  /\ phase' = "open"
                    /\ error' = ""
                    /\ byteswapped' = h.byteswapped
                    /\ sequence_count' = h.sequence_count
                    /\ offsets' = od
                    /\ sequences' = made
                    /\ \E n \in DOMAIN od : iter_last' = n /\ pos' = made[n].offset
                    /\ last' = [NoCall EXCEPT !.op = "open", !.status = "ok"]
    /\ UNCHANGED << container, file, ref >>

\* ------------------------------------------------------------------------
\* One call of get_slice on sequence `name`
\* ------------------------------------------------------------------------
\* (`before`: the cursor the call found, kept by the serial runs only)
Call(name, min_arg, max_arg, before) ==
    LET r == get_slice(sequences[name], file, pos, min_arg, max_arg)
    IN  /\ pos' = r.pos
        /\ last' = [op |-> "get_slice", name |-> name, min_ |-> min_arg,
                    max_ |-> max_arg, status |-> r.status, value |-> r.value,
                    sizes |-> << >>, before |-> before]

\* the coordinates tried on a sequence of n bases
Coords(n) == (0 - (n + Slack))..(n + Slack)
Ends(n) == {None} \cup {Some(c) : c \in Coords(n)}

\* main runs: one call on the freshly opened container
GetSlice ==
    /\ phase = "open"
    /\ last.op = "open"
    /\ \E name \in DOMAIN sequences :
         \E min_arg \in Coords(sequences[name].dna_size),
            max_arg \in Ends(sequences[name].dna_size) :
              Call(name, min_arg, max_arg, 0)
    /\ UNCHANGED << container, file, phase, error, byteswapped, sequence_count,
                    offsets, sequences, iter_last, ref >>

\* serial runs: call after call; the first one is remembered
SerialCoords == 0..MaxCoordSerial

GetSliceSerial ==
    /\ phase = "open"
    /\ \E name \in DOMAIN sequences :
         \E min_arg \in SerialCoords,
            max_arg \in {None} \cup {Some(c) : c \in SerialCoords} :
              Call(name, min_arg, max_arg, pos)
    /\ ref' = IF ref.op = "none" THEN last' ELSE ref
    /\ UNCHANGED << container, file, phase, error, byteswapped, sequence_count,
                    offsets, sequences, iter_last >>

\* sequence_sizes(): the same dict is walked in the same order, and the cursor
\* ends behind dna_size of the record read last
SequenceSizes ==
    /\ phase = "open"
    /\ pos' = offsets[iter_last] + 4
    /\ last' = [NoCall EXCEPT !.op = "sequence_sizes", !.status = "ok",
                              !.sizes = sequence_sizes(file, offsets, byteswapped)]
    /\ UNCHANGED << container, file, phase, error, byteswapped, sequence_count,
                    offsets, sequences, iter_last, ref >>

Next == Open \/ GetSlice
NextSerial == Open \/ GetSliceSerial \/ SequenceSizes

Spec == Init /\ [][Next]_vars
SpecSerial == InitSerial /\ [][NextSerial]_vars
SpecHeader == InitHeader /\ [][Next]_vars

\* ------------------------------------------------------------------------
\* What the writer put in: the reference the claims compare against
\* ------------------------------------------------------------------------
\* the record of sequence `name` as it was written
Written(name) ==
    LET k == CHOOSE k \in 1..Len(container.seqs) : container.seqs[k].name = name
    IN  container.seqs[k]

InRun(runs, p) ==
    \E k \in 1..Len(runs) : runs[k][1] <= p /\ p < runs[k][1] + runs[k][2]

\* the symbol at 0-based position p: N inside an N-run, else the base;
\* lowercase inside a mask-run
ReferenceAt(s, p) ==
    LET sym == IF InRun(s.n_runs, p) THEN "N" ELSE s.bases[p + 1]
    IN  IF InRun(s.mask_runs, p) THEN LowerChar(sym) ELSE sym

\* the reference string of positions a .. b - 1
Reference(s, a, b) == [k \in 1..(b - a) |-> ReferenceAt(s, a + k - 1)]

Alphabet == {"A", "C", "G", "T", "N", "a", "c", "g", "t", "n"}

\* the last call was get_slice(a, b) with both coordinates given
Sliced == last.op = "get_slice" /\ ~last.max_.none
DnaSize == Len(Written(last.name).bases)

\* what get_slice(a, b) gives on the sequence of the last call, cursor as it is
\* (status and value only)
Outcome(r) == [status |-> r.status, value |-> r.value]
Again(a, b) == Outcome(get_slice(sequences[last.name], file, pos, a, b))
Got == [status |-> last.status, value |-> last.value]

\* ------------------------------------------------------------------------
\* C1
\* ------------------------------------------------------------------------
\* C1 (length law): for all 0 <= a <= b <= dna_size, get_slice(a, b) returns
\* normally, with exactly b - a symbols, each one of A C G T N a c g t n.
C1_LengthLaw ==
    (Sliced /\ 0 <= last.min_ /\ last.min_ <= last.max_.v /\ last.max_.v <= DnaSize)
      => /\ last.status = "ok"
         /\ Len(last.value) = last.max_.v - last.min_
         /\ \A k \in 1..Len(last.value) : last.value[k] \in Alphabet

\* ------------------------------------------------------------------------
\* C2
\* ------------------------------------------------------------------------
\* C2 (round trip): on a container written in host order from a known base
\* string with well-formed runs, get_slice(0, dna_size) is the reference
\* string: N in the N-runs, the packed base elsewhere, lowercase in the
\* mask-runs.
C2_RoundTrip ==
    (Sliced /\ ~container.swapped /\ last.min_ = 0 /\ last.max_.v = DnaSize)
      => /\ last.status = "ok"
         /\ last.value = Reference(Written(last.name), 0, DnaSize)

\* ------------------------------------------------------------------------
\* C3
\* ------------------------------------------------------------------------
\* C3 (truncation law): for 0 <= a <= dna_size and K > 0,
\* get_slice(a, dna_size + K) raises nothing and returns what
\* get_slice(a, dna_size) returns.
C3_Truncation ==
    (Sliced /\ 0 <= last.min_ /\ last.min_ <= DnaSize /\ last.max_.v > DnaSize)
      => /\ last.status = "ok"
         /\ Got = Again(last.min_, Some(DnaSize))

\* ------------------------------------------------------------------------
\* C4
\* ------------------------------------------------------------------------
\* a coordinate below -dna_size
TooNegative(c) == c < 0 /\ c < 0 - DnaSize

\* C4 (range error): get_slice(start, end) fails with the range error exactly
\* when start, or a given end, is negative with a magnitude above dna_size.
C4_RangeError ==
    last.op = "get_slice"
      => ( (last.status = RangeError)
             <=> (TooNegative(last.min_)
                    \/ (~last.max_.none /\ TooNegative(last.max_.v))) )

\* ------------------------------------------------------------------------
\* C5
\* ------------------------------------------------------------------------
\* C5 (negative-index convention): for 1 <= k <= dna_size,
\* get_slice(-k, None) is get_slice(dna_size + 1 - k, dna_size), and for
\* s >= 0, get_slice(s, -k) is get_slice(s, dna_size + 1 - k).
C5_NegativeIndex ==
    /\ (last.op = "get_slice" /\ last.max_.none
          /\ last.min_ < 0 /\ 0 - last.min_ <= DnaSize)
         => Got = Again(DnaSize + 1 + last.min_, Some(DnaSize))
    /\ (Sliced /\ last.min_ >= 0
          /\ last.max_.v < 0 /\ 0 - last.max_.v <= DnaSize)
         => Got = Again(last.min_, Some(DnaSize + 1 + last.max_.v))

\* ------------------------------------------------------------------------
\* C6
\* ------------------------------------------------------------------------
\* C6 (omitted end): for 0 <= a <= dna_size, get_slice(a, None) gives what
\* get_slice(a, dna_size) gives; str(sequence) is get_slice(0, dna_size).
C6_OmittedEnd ==
    (last.op = "get_slice" /\ last.max_.none
       /\ 0 <= last.min_ /\ last.min_ <= DnaSize)
      => /\ Got = Again(last.min_, Some(DnaSize))
         /\ last.min_ = 0
              => Outcome(str(sequences[last.name], file, pos))
                   = Again(0, Some(DnaSize))

\* ------------------------------------------------------------------------
\* C7
\* ------------------------------------------------------------------------
\* the host-order twin of the container, opened
Twin == [container EXCEPT !.swapped = FALSE]
TwinFile == FileBytes(Twin)
TwinSequence(name) ==
    LET h == load_header(TwinFile)
        od == offset_dict(load_index(TwinFile, h.sequence_count, h.byteswapped))
    IN  TwoBitSequence(TwinFile, od[name], Len(TwinFile), h.byteswapped)

\* C7 (byte-order symmetry): a container whose 32-bit fields are all stored
\* byte-reversed, names and packed bases being the same bytes, opens with the
\* swap detected, and every get_slice on it gives what it gives on the
\* host-order twin.
C7_ByteOrderSymmetry ==
    (container.swapped /\ phase = "open")
      => /\ byteswapped
         /\ last.op = "get_slice"
              => Got = Outcome(get_slice(TwinSequence(last.name), TwinFile, 0,
                                         last.min_, last.max_))

\* ------------------------------------------------------------------------
\* C10
\* ------------------------------------------------------------------------
\* the sequence of the last call is the last of the file, and the file ends
\* with the ceil(dna_size / 4) bytes of a final unit that is not whole
ShortFinalUnit ==
    /\ last.name = container.seqs[Len(container.seqs)].name
    /\ ~container.padded
    /\ ((DnaSize + 3) \div 4) % 4 # 0

\* C10 (short final unit): with the final unit short, every get_slice(a, b),
\* 0 <= a < b <= dna_size, that reaches into the final unit returns the b - a
\* bases of the reference, however many units the range covers.
C10_ShortFinalUnit ==
    (Sliced /\ ~container.swapped /\ ShortFinalUnit
       /\ 0 <= last.min_ /\ last.min_ < last.max_.v /\ last.max_.v <= DnaSize
       /\ last.max_.v > 16 * ((DnaSize - 1) \div 16))
      => /\ last.status = "ok"
         /\ last.value = Reference(Written(last.name), last.min_, last.max_.v)

\* ------------------------------------------------------------------------
\* C8
\* ------------------------------------------------------------------------
\* a 32-bit value with its four bytes reversed
Swap32(x) ==
    (x % 256) * 16777216 + ((x \div 256) % 256) * 65536
      + ((x \div 65536) % 256) * 256 + ((x \div 16777216) % 256)

\* what a read in host order makes of a header field the writer stored
AsRead(x) == IF container.swapped THEN Swap32(x) ELSE x

\* the signature matches as read / only after the swap
MatchesAsRead == AsRead(container.signature) = SIGNATURE
MatchesSwapped ==
    ~MatchesAsRead /\ Swap32(AsRead(container.signature)) = SIGNATURE

\* a header field in the byte order the signature settled
Settled(x) == IF MatchesAsRead THEN AsRead(x) ELSE Swap32(AsRead(x))

ValidHeader ==
    /\ MatchesAsRead \/ MatchesSwapped
    /\ Settled(container.version) = 0
    /\ Settled(container.reserved) = 0

\* C8 (header validation): the open succeeds only with a signature that
\* matches as read or after the swap and with version and reserved 0 in that
\* byte order; otherwise it fails with TwoBitFileError with nothing behind the
\* header read and no catalog entry; the byte-order mode is swapped exactly
\* when the signature matched only after the swap.
C8_HeaderValidation ==
    phase # "closed"
      => /\ phase = "open" => ValidHeader
         /\ ~ValidHeader
              => /\ phase = "failed"
                 /\ error = "TwoBitFileError"
                 /\ pos = 16
                 /\ offsets = << >>
                 /\ sequences = << >>
         /\ phase = "open" => (byteswapped <=> MatchesSwapped)

\* a swapped header whose signature matches after the swap is still refused
\* for its version
C8_Witness ==
    /\ phase = "failed"
    /\ MatchesSwapped
    /\ container.version # 0
    /\ container.reserved = 0

\* ------------------------------------------------------------------------
\* C9
\* ------------------------------------------------------------------------
SameCall(x, y) ==
    /\ x.op = "get_slice" /\ y.op = "get_slice"
    /\ x.name = y.name /\ x.min_ = y.min_ /\ x.max_ = y.max_

\* C9 (history independence): whatever calls came between and wherever they
\* left the cursor, get_slice with the arguments of the first call gives what
\* the first call gave, and no step changes a descriptor or a catalog entry.
C9_HistoryIndependence ==
    /\ [](SameCall(last, ref)
            => last.status = ref.status /\ last.value = ref.value)
    /\ [][phase = "open"
            => sequences' = sequences /\ offsets' = offsets /\ file' = file]_vars

\* the first call repeated with the cursor somewhere else, bases returned
C9_Witness ==
    /\ SameCall(last, ref)
    /\ last.before # ref.before
    /\ last.status = "ok"
    /\ last.value # << >>

\* ------------------------------------------------------------------------
\* C11
\* ------------------------------------------------------------------------
\* the coordinates of the last call as get_slice normalizes them
Normalized == Normalize(sequences[last.name].dna_size, last.min_, last.max_)

\* C11 (normalization invariant): a get_slice call that neither returns the
\* empty string early nor fails with the range error reads and decodes with
\* 0 <= min_ <= max_ <= dna_size.
C11_NormalizationInvariant ==
    (last.op = "get_slice" /\ Normalized.kind = "read")
      => /\ 0 <= Normalized.min_
         /\ Normalized.min_ <= Normalized.max_
         /\ Normalized.max_ <= sequences[last.name].dna_size

\* ------------------------------------------------------------------------
\* C12
\* ------------------------------------------------------------------------
\* C12 (sub-range consistency): for 0 <= a < b <= dna_size, get_slice(a, b)
\* is the substring [a:b] of get_slice(0, dna_size).
C12_SubRangeConsistency ==
    (Sliced /\ 0 <= last.min_ /\ last.min_ < last.max_.v /\ last.max_.v <= DnaSize)
      => LET whole == Again(0, Some(DnaSize))
         IN  /\ whole.status = "ok"
             /\ last.status = "ok"
             /\ last.value = PyGetSlice(whole.value, last.min_, last.max_.v)

====
